---- MODULE Spec2Model ----
(***************************************************************************)
(* A model of rdb (src/include/rdb.h): the Database connection wrapper,    *)
(* its RAII Transaction guard and the Statement cursor wrapper, together   *)
(* with the part of the embedded engine (SQLite) that the wrapper's        *)
(* behaviour depends on.                                                   *)
(*                                                                         *)
(* Five specifications share the variables:                                *)
(*   SpecConn  ownership of native database handles by Database objects    *)
(*   SpecTxn   Transaction scopes over one connection                      *)
(*   SpecStmt  one prepared SELECT driven through its cursor               *)
(*   SpecBind  one prepared statement with parameters (INSERT, SELECT)     *)
(*   SpecOwn   ownership of compiled handles by Statement objects          *)
(* Each leaves the variables it does not use at their initial values.      *)
(***************************************************************************)
EXTENDS Integers, Sequences, FiniteSets, TLC

VARIABLES
    objs,       \* SpecConn: Database objects, each [live, db_]
    handles,    \* SpecConn: native handles allocated by sqlite3_open
    lastConn,   \* SpecConn: outcome of the last Database operation
    table,      \* contents of table t: a sequence of rows [id, v]
    engineTxn,  \* SpecTxn: the engine has an explicit transaction open
    snapshot,   \* SpecTxn: the engine's rollback journal (contents at BEGIN)
    scopes,     \* SpecTxn: stack of live Transaction objects
    exc,        \* SpecTxn: an SQLiteException is propagating
    proc,       \* SpecTxn: "running" or "terminated" (std::terminate)
    lastTxn,    \* SpecTxn: outcome of the last Transaction operation
    stmt,       \* SpecStmt: the Statement (engine side of stmt_)
    autoreset,  \* SpecStmt: the engine build resets a halted statement on step
    manual,     \* SpecStmt: rows collected by the caller's own step loop
    last,       \* SpecStmt: outcome of the last Statement operation
    stmts,      \* SpecOwn: Statement objects, each [live, stmt_]
    compiled,   \* SpecOwn: compiled handles made by sqlite3_prepare_v2
    lastOwn     \* SpecOwn: outcome of the last operation on a Statement object

connVars == <<objs, handles, lastConn>>
txnVars  == <<engineTxn, snapshot, scopes, exc, proc, lastTxn>>
stmtVars == <<stmt, autoreset, manual, last>>
ownVars  == <<stmts, compiled, lastOwn>>
vars     == <<objs, handles, lastConn, table, engineTxn, snapshot, scopes,
              exc, proc, lastTxn, stmt, autoreset, manual, last,
              stmts, compiled, lastOwn>>

(***************************************************************************)
(* Bounds of the model.                                                    *)
(***************************************************************************)
MaxConns   == 3   \* Database objects (slots of storage) in SpecConn
MaxHandles == 2   \* sqlite3_open calls in SpecConn
MaxRows    == 3   \* rows of table t
MaxScopes  == 2   \* Transaction objects alive at once
MaxInsertRows == 2  \* rows of table t that the prepared INSERT fills it to
MaxStmts   == 3   \* Statement objects (slots of storage) in SpecOwn
MaxCompiled == 2  \* successful sqlite3_prepare_v2 calls in SpecOwn

(***************************************************************************)
(* Engine result codes (sqlite3.h).                                        *)
(***************************************************************************)
SQLITE_OK     == "SQLITE_OK"
SQLITE_ERROR  == "SQLITE_ERROR"
SQLITE_ROW    == "SQLITE_ROW"
SQLITE_DONE   == "SQLITE_DONE"
SQLITE_RANGE  == "SQLITE_RANGE"
SQLITE_MISUSE == "SQLITE_MISUSE"
SQLITE_CONSTRAINT == "SQLITE_CONSTRAINT"
SQLITE_FULL   == "SQLITE_FULL"
SQLITE_BUSY   == "SQLITE_BUSY"
SQLITE_CANTOPEN == "SQLITE_CANTOPEN"

nullptr == 0

(***************************************************************************)
(*                              SpecConn                                   *)
(* Database: rdb.h lines 21-46.  A Database object is a slot o of objs;    *)
(* handles[h] counts the sqlite3_close calls made on native handle h and   *)
(* remembers whether a Database object ever wrapped it.                    *)
(***************************************************************************)
ObjIds == 1..MaxConns

NoResult == [op |-> "init", rc |-> SQLITE_OK, threw |-> FALSE, src |-> 1]

\* sqlite3_close(h) as called at lines 31 and 38 (no statement is outstanding
\* on the handle in this specification, so the close succeeds).
sqlite3_close(hs, h) == [hs EXCEPT ![h].closes = @ + 1]

\* The guarded close of lines 31 and 38: if (db_) sqlite3_close(db_);
CloseIfHeld(hs, h) == IF h # nullptr THEN sqlite3_close(hs, h) ELSE hs

\* Database(const std::string&), sqlite3_open returning SQLITE_OK.
Open(o) ==
    /\ ~objs[o].live
    /\ Len(handles) < MaxHandles
    /\ handles' = Append(handles, [closes |-> 0, wrapped |-> TRUE])
    /\ objs' = [objs EXCEPT ![o] = [live |-> TRUE, db_ |-> Len(handles) + 1]]
    /\ lastConn' = [NoResult EXCEPT !.op = "open"]
    /\ UNCHANGED <<table, txnVars, stmtVars, ownVars>>

\* Database(const std::string&), sqlite3_open failing: the engine has (unless
\* out of memory, allocated = FALSE) still allocated a handle and stored it in
\* db_; the constructor throws, the object never comes to life and its
\* destructor never runs.
OpenFail(o, allocated) ==
    /\ ~objs[o].live
    /\ Len(handles) < MaxHandles
    /\ handles' = IF allocated
                  THEN Append(handles, [closes |-> 0, wrapped |-> FALSE])
                  ELSE handles
    /\ lastConn' = [NoResult EXCEPT !.op = "open", !.rc = SQLITE_CANTOPEN,
                                  !.threw = TRUE]
    /\ UNCHANGED <<objs, table, txnVars, stmtVars, ownVars>>

\* The member initialisation and body of the move constructor (line 36).
MoveCtorEffect(os, dst, src) ==
    LET o1 == [os EXCEPT ![dst] = [live |-> TRUE, db_ |-> os[src].db_]]
    IN  [o1 EXCEPT ![src].db_ = nullptr]

\* Database(Database&& other)
MoveConstruct(dst, src) ==
    /\ ~objs[dst].live
    /\ objs[src].live
    /\ objs' = MoveCtorEffect(objs, dst, src)
    /\ lastConn' = [NoResult EXCEPT !.op = "move_ctor", !.src = src]
    /\ UNCHANGED <<handles, table, txnVars, stmtVars, ownVars>>

MoveAssignEffect_NoNull(os, dst, src) == [os EXCEPT ![dst].db_ = os[src].db_]

\* Lines 39-40 of operator=(Database&&), one assignment after the other, so
\* that dst = src (self-assignment) is what the code makes of it.
MoveAssignEffect(os, dst, src) ==
    LET o1 == [os EXCEPT ![dst].db_ = os[src].db_]
    IN  [o1 EXCEPT ![src].db_ = nullptr]

\* Database& operator=(Database&& other)
MoveAssign(dst, src) ==
    /\ objs[dst].live
    /\ objs[src].live
    /\ handles' = CloseIfHeld(handles, objs[dst].db_)
    /\ objs' = MoveAssignEffect(objs, dst, src)
    /\ lastConn' = [NoResult EXCEPT
                       !.op = IF dst = src THEN "self_assign" ELSE "move_assign",
                       !.src = src]
    /\ UNCHANGED <<table, txnVars, stmtVars, ownVars>>

\* ~Database()
Destroy(o) ==
    /\ objs[o].live
    /\ handles' = CloseIfHeld(handles, objs[o].db_)
    /\ objs' = [objs EXCEPT ![o] = [live |-> FALSE, db_ |-> nullptr]]
    /\ lastConn' = [NoResult EXCEPT
                       !.op = IF objs[o].db_ = nullptr THEN "destroy_empty"
                                                       ELSE "destroy"]
    /\ UNCHANGED <<table, txnVars, stmtVars, ownVars>>

(***************************************************************************)
(* Column values and the table t(id INTEGER PRIMARY KEY, v TEXT).          *)
(* A value is a record [t, i, s]: its storage class, and its integer or    *)
(* text payload.  A double with integral value n is DblV(n).               *)
(***************************************************************************)
Null     == [t |-> "null", i |-> 0, s |-> ""]
IntV(n)  == [t |-> "int",  i |-> n, s |-> ""]
DblV(n)  == [t |-> "dbl",  i |-> n, s |-> ""]
TextV(x) == [t |-> "text", i |-> 0, s |-> x]

RECURSIVE MaxId(_)
MaxId(tbl) ==
    IF tbl = << >> THEN 0
    ELSE LET m == MaxId(Tail(tbl))
         IN  IF Head(tbl).id > m THEN Head(tbl).id ELSE m

\* INSERT INTO t(v) VALUES(val): the engine gives the row the next rowid.
InsertRow(tbl, val) == Append(tbl, [id |-> MaxId(tbl) + 1, v |-> val])

(***************************************************************************)
(*                              SpecTxn                                    *)
(* Database::execute and Database::Transaction: rdb.h lines 48-66.         *)
(* scopes is the stack of live Transaction objects of one thread; each     *)
(* holds active_ and, as history, the table contents at its BEGIN          *)
(* (atBegin), whether commit() or rollback() was ever called on it         *)
(* (called), whether a COMMIT or ROLLBACK issued by its commit() or         *)
(* rollback() succeeded (resolved), and whether the engine transaction it  *)
(* began is still the open one (txnLive).                                  *)
(***************************************************************************)
TxnTexts == {"a", "b"}

NoTxnResult ==
    [op |-> "init", issued |-> "none", rc |-> SQLITE_OK, threw |-> FALSE,
     unwinding |-> FALSE, pending |-> FALSE, called |-> FALSE,
     resolved |-> FALSE, txnLive |-> FALSE, atBegin |-> << >>, before |-> << >>]

\* An engine that accepts a BEGIN inside a transaction.
BeginRc_AlwaysOk == SQLITE_OK

\* The engine's answer to db_.execute("BEGIN;") (sqlite3_exec, line 50):
\* an error when a transaction is already open.
BeginRc == IF engineTxn THEN SQLITE_ERROR ELSE SQLITE_OK

\* The engine's answer to "ROLLBACK;" or "COMMIT;" when no transaction is
\* open: "cannot rollback - no transaction is active".
EndRc == IF engineTxn THEN SQLITE_OK ELSE SQLITE_ERROR

\* No scope's transaction is the open one any more.
AllEnded(ss) == [k \in 1..Len(ss) |-> [ss[k] EXCEPT !.txnLive = FALSE]]

\* Transaction(Database& db) : db_(db) { db_.execute("BEGIN;"); }
\* When execute throws, the constructor does not complete: no object, and
\* no destructor call for it.
TxnCtor ==
    /\ proc = "running" /\ ~exc
    /\ Len(scopes) < MaxScopes
    /\ IF BeginRc = SQLITE_OK
       THEN /\ engineTxn' = TRUE
            /\ snapshot' = table
            /\ scopes' = Append(scopes, [active_ |-> TRUE, atBegin |-> table,
                                         called |-> FALSE, resolved |-> FALSE,
                                         txnLive |-> TRUE])
            /\ exc' = FALSE
       ELSE /\ exc' = TRUE
            /\ UNCHANGED <<engineTxn, snapshot, scopes>>
    /\ lastTxn' = [NoTxnResult EXCEPT !.op = "ctor", !.issued = "BEGIN;",
                      !.rc = BeginRc, !.threw = (BeginRc # SQLITE_OK),
                      !.before = table]
    /\ UNCHANGED <<table, proc, connVars, stmtVars, ownVars>>

\* db.execute("INSERT INTO t(v) VALUES(...)") (lines 48-55), with the
\* engine's three outcomes:
\*   "ok"        the row is inserted;
\*   "abort"     the statement fails and only it is undone (the default
\*               conflict resolution): execute throws;
\*   "rollback"  the statement fails and the engine rolls the whole open
\*               transaction back (INSERT OR ROLLBACK on a conflict, or
\*               SQLITE_FULL, SQLITE_IOERR, SQLITE_NOMEM): execute throws.
ExecInsert(val, outcome) ==
    /\ proc = "running" /\ ~exc
    /\ \/ /\ outcome = "ok"
          /\ Len(table) < MaxRows
          /\ table' = InsertRow(table, TextV(val))
          /\ UNCHANGED <<engineTxn, scopes, exc>>
       \/ /\ outcome = "abort"
          /\ exc' = TRUE
          /\ UNCHANGED <<table, engineTxn, scopes>>
       \/ /\ outcome = "rollback"
          /\ engineTxn
          /\ table' = snapshot
          /\ engineTxn' = FALSE
          /\ scopes' = AllEnded(scopes)
          /\ exc' = TRUE
    /\ lastTxn' = [NoTxnResult EXCEPT !.op = "execute", !.issued = "INSERT",
                      !.rc = CASE outcome = "ok" -> SQLITE_OK
                               [] outcome = "abort" -> SQLITE_CONSTRAINT
                               [] OTHER -> SQLITE_FULL,
                      !.threw = (outcome # "ok"), !.before = table]
    /\ UNCHANGED <<snapshot, proc, connVars, stmtVars, ownVars>>

\* A commit() or rollback() that clears the flag before it executes.
AfterEnd_ClearFirst(scope, rc) == [scope EXCEPT !.active_ = FALSE]

\* The body of commit() and of rollback() after the engine has answered rc
\* (lines 64-65): when execute throws, the assignment active_ = false is
\* not reached.
AfterEnd(scope, rc) ==
    IF rc = SQLITE_OK THEN [scope EXCEPT !.active_ = FALSE] ELSE scope

\* void commit() { db_.execute("COMMIT;"); active_ = false; }
\* busy: the engine refuses the COMMIT of an open transaction (SQLITE_BUSY)
\* and leaves it open.
Commit(k, busy) ==
    /\ proc = "running" /\ ~exc
    /\ k \in 1..Len(scopes)
    /\ busy => engineTxn
    /\ LET rc == IF busy THEN SQLITE_BUSY ELSE EndRc
       IN  /\ IF rc = SQLITE_OK
              THEN /\ engineTxn' = FALSE
                   /\ scopes' = [AllEnded(scopes) EXCEPT
                                    ![k] = [AfterEnd(@, rc) EXCEPT
                                               !.called = TRUE,
                                               !.resolved = TRUE]]
                   /\ exc' = FALSE
              ELSE /\ exc' = TRUE
                   /\ scopes' = [scopes EXCEPT
                                    ![k] = [AfterEnd(@, rc) EXCEPT
                                               !.called = TRUE]]
                   /\ UNCHANGED engineTxn
           /\ lastTxn' = [NoTxnResult EXCEPT !.op = "commit",
                             !.issued = "COMMIT;", !.rc = rc,
                             !.threw = (rc # SQLITE_OK), !.before = table]
    /\ UNCHANGED <<table, snapshot, proc, connVars, stmtVars, ownVars>>

\* void rollback() { db_.execute("ROLLBACK;"); active_ = false; }
Rollback(k) ==
    /\ proc = "running" /\ ~exc
    /\ k \in 1..Len(scopes)
    /\ IF EndRc = SQLITE_OK
       THEN /\ engineTxn' = FALSE
            /\ table' = snapshot
            /\ scopes' = [AllEnded(scopes) EXCEPT
                             ![k] = [AfterEnd(@, EndRc) EXCEPT
                                        !.called = TRUE, !.resolved = TRUE]]
            /\ exc' = FALSE
       ELSE /\ exc' = TRUE
            /\ scopes' = [scopes EXCEPT
                             ![k] = [AfterEnd(@, EndRc) EXCEPT
                                        !.called = TRUE]]
            /\ UNCHANGED <<engineTxn, table>>
    /\ lastTxn' = [NoTxnResult EXCEPT !.op = "rollback",
                      !.issued = "ROLLBACK;", !.rc = EndRc,
                      !.threw = (EndRc # SQLITE_OK), !.before = table]
    /\ UNCHANGED <<snapshot, proc, connVars, stmtVars, ownVars>>

\* What ~Transaction() does when execute("ROLLBACK;") throws out of it: a
\* destructor is noexcept, so the exception leaving it calls std::terminate,
\* whether or not another exception is propagating.
DtorThrowOutcome == "terminated"

\* The test of ~Transaction(): if(active_)
ShouldRollback_Never(scope) == FALSE

ShouldRollback(scope) == scope.active_

\* ~Transaction() { if(active_) db_.execute("ROLLBACK;"); } run on the
\* innermost live scope, on leaving its block normally (exc = FALSE) or
\* during stack unwinding (exc = TRUE).
Dtor ==
    /\ proc = "running"
    /\ Len(scopes) > 0
    /\ LET top == scopes[Len(scopes)]
           rest == SubSeq(scopes, 1, Len(scopes) - 1)
           roll == ShouldRollback(top)
       IN  /\ IF roll
              THEN IF EndRc = SQLITE_OK
                   THEN /\ table' = snapshot
                        /\ engineTxn' = FALSE
                        /\ scopes' = AllEnded(rest)
                        /\ UNCHANGED <<proc, exc>>
                   ELSE /\ proc' = DtorThrowOutcome
                        /\ scopes' = rest
                        /\ UNCHANGED <<table, engineTxn, exc>>
              ELSE /\ scopes' = rest
                   /\ UNCHANGED <<table, engineTxn, proc, exc>>
           /\ lastTxn' = [op |-> "dtor",
                          issued |-> IF roll THEN "ROLLBACK;" ELSE "none",
                          rc |-> IF roll THEN EndRc ELSE SQLITE_OK,
                          threw |-> roll /\ EndRc # SQLITE_OK,
                          unwinding |-> exc, pending |-> top.active_,
                          called |-> top.called, resolved |-> top.resolved,
                          txnLive |-> top.txnLive,
                          atBegin |-> top.atBegin, before |-> table]
    /\ UNCHANGED <<snapshot, connVars, stmtVars, ownVars>>

\* A handler of the caller catches the propagating SQLiteException, in the
\* block of a live scope or outside every scope (example.cpp line 28).
Catch ==
    /\ proc = "running" /\ exc
    /\ exc' = FALSE
    /\ lastTxn' = [NoTxnResult EXCEPT !.op = "catch", !.before = table]
    /\ UNCHANGED <<table, engineTxn, snapshot, scopes, proc, connVars,
                   stmtVars, ownVars>>

(***************************************************************************)
(*                              SpecStmt                                   *)
(* Statement: rdb.h lines 72-183, and the engine calls it makes.           *)
(*                                                                         *)
(* stmt is the compiled statement behind stmt_:                            *)
(*   kind    "none" (no Statement object), or the SQL compiled:            *)
(*           "select"       SELECT id, v FROM t ORDER BY id                *)
(*           "select_from"  SELECT id, v FROM t WHERE id >= :lo ORDER BY id*)
(*           "insert"       INSERT INTO t(id, v) VALUES(?1, :v)            *)
(*   state   "Ready", "HasRow", or "Exhausted" (the engine has halted the  *)
(*           statement: its last step returned SQLITE_DONE or an error)    *)
(*   pos     the index in the result of the row the cursor is on           *)
(*   params  the values bound to parameters 1..NParams                     *)
(*   err     the error code of the failed step, until the next reset       *)
(***************************************************************************)
Kinds == {"select", "select_from", "insert"}

NParams(kind) ==
    CASE kind = "insert" -> 2
      [] kind = "select_from" -> 1
      [] OTHER -> 0

\* The placeholders the SQL of each kind of statement contains.
Placeholders(kind) ==
    CASE kind = "insert" -> {"?1", ":v"}
      [] kind = "select_from" -> {":lo"}
      [] OTHER -> {}

\* A lookup that gives an unknown name the first parameter.
ParamIndex_FirstWhenUnknown(kind, name) ==
    CASE kind = "insert" /\ name = ":v" -> 2
      [] OTHER -> 1

\* sqlite3_bind_parameter_index (lines 104, 108, 112): 0 for an unknown name.
ParamIndex(kind, name) ==
    CASE kind = "insert" /\ name = "?1" -> 1
      [] kind = "insert" /\ name = ":v" -> 2
      [] kind = "select_from" /\ name = ":lo" -> 1
      [] OTHER -> 0

NoStmt == [kind |-> "none", state |-> "Ready", pos |-> 0, params |-> << >>,
           err |-> SQLITE_OK]

\* A statement as sqlite3_prepare_v2 leaves it (line 77): every parameter NULL.
Compiled(kind) ==
    [kind |-> kind, state |-> "Ready", pos |-> 0,
     params |-> [k \in 1..NParams(kind) |-> Null], err |-> SQLITE_OK]

Digits == <<"0", "1", "2", "3", "4", "5", "6", "7", "8", "9">>

\* The engine's rendering of an integer as text.
RECURSIVE IntText(_)
IntText(n) ==
    IF n < 10 THEN Digits[n + 1]
    ELSE IntText(n \div 10) \o Digits[(n % 10) + 1]

\* The engine's rendering of a double with integral value n as text.
DblText(n) == IntText(n) \o ".0"

\* The largest integer whose text a column of the model can hold.
MaxNum == MaxRows + MaxInsertRows + 3

\* The engine's conversion of text to a number: the numeric prefix, else 0.
TextNum(x) ==
    IF \E n \in 0..MaxNum : x \in {IntText(n), DblText(n)}
    THEN CHOOSE n \in 0..MaxNum : x \in {IntText(n), DblText(n)}
    ELSE 0

IsNumericText(x) == \E n \in 0..MaxNum : x \in {IntText(n), DblText(n)}

\* A value stored into column v, of TEXT affinity.
TextAffinity(val) ==
    CASE val.t = "int" -> TextV(IntText(val.i))
      [] val.t = "dbl" -> TextV(DblText(val.i))
      [] OTHER -> val

\* An insertion that overwrites: the table is left with the new row alone.
InsertSorted_Replace(tbl, row) == <<row>>

\* The row inserted in rowid order (t is a rowid table keyed by id).
InsertSorted(tbl, row) ==
    SelectSeq(tbl, LAMBDA r : r.id < row.id) \o <<row>>
        \o SelectSeq(tbl, LAMBDA r : r.id > row.id)

\* id >= :lo for the value bound to :lo.  A comparison with NULL is not
\* true; a number is compared by value; text that is not a number sorts
\* after every integer.
AtLeast(id, lo) ==
    CASE lo.t = "null" -> FALSE
      [] lo.t = "text" -> IsNumericText(lo.s) /\ id >= TextNum(lo.s)
      [] OTHER -> id >= lo.i

\* The rows the compiled query yields, in cursor order.
QueryRows(s, tbl) ==
    CASE s.kind = "select" -> tbl
      [] s.kind = "select_from" ->
             SelectSeq(tbl, LAMBDA r : AtLeast(r.id, s.params[1]))
      [] OTHER -> << >>

\* sqlite3_reset (line 123): back to the start of the program; the bindings
\* are kept.
ResetStmt_ClearBindings(s) ==
    [s EXCEPT !.state = "Ready", !.pos = 0, !.err = SQLITE_OK,
              !.params = [k \in DOMAIN s.params |-> Null]]

\* A reset that drops the bindings of a statement that is already Ready.
ResetStmt_DropWhenReady(s) ==
    IF s.state = "Ready" /\ s.err = SQLITE_OK
    THEN [s EXCEPT !.pos = 0, !.params = [k \in DOMAIN s.params |-> Null]]
    ELSE [s EXCEPT !.state = "Ready", !.pos = 0, !.err = SQLITE_OK]

ResetStmt(s) == [s EXCEPT !.state = "Ready", !.pos = 0, !.err = SQLITE_OK]

\* The code sqlite3_reset returns: that of the statement's failed step.
ResetRc(s) == s.err

\* One execution of the INSERT with the bound values.
InsertStep(s, tbl) ==
    LET p1 == s.params[1]
        idOk == p1.t # "text" \/ IsNumericText(p1.s)
        id == CASE p1.t = "null" -> MaxId(tbl) + 1
                [] p1.t = "text" -> TextNum(p1.s)
                [] OTHER -> p1.i
        halted(rc) == [rc |-> rc, table |-> tbl,
                       stmt |-> [s EXCEPT !.state = "Exhausted", !.err = rc]]
    IN  IF ~idOk THEN halted(SQLITE_ERROR)
        ELSE IF \E k \in 1..Len(tbl) : tbl[k].id = id
        THEN halted(SQLITE_CONSTRAINT)
        ELSE [rc |-> SQLITE_DONE,
              table |-> InsertSorted(tbl, [id |-> id,
                                           v |-> TextAffinity(s.params[2])]),
              stmt |-> [s EXCEPT !.state = "Exhausted"]]

\* sqlite3_step on a statement that is Ready or HasRow.
RunStep(s, tbl) ==
    IF s.kind = "insert" THEN InsertStep(s, tbl)
    ELSE IF s.pos < Len(QueryRows(s, tbl))
    THEN [rc |-> SQLITE_ROW, table |-> tbl,
          stmt |-> [s EXCEPT !.state = "HasRow", !.pos = s.pos + 1]]
    ELSE [rc |-> SQLITE_DONE, table |-> tbl,
          stmt |-> [s EXCEPT !.state = "Exhausted"]]

\* sqlite3_step (line 117).  fault: the engine fails the call (an I/O error).
\* On a halted statement the engine resets it and runs it again, or, in a
\* build with SQLITE_OMIT_AUTORESET, answers SQLITE_MISUSE.
EngineStep(s, tbl, fault) ==
    IF s.state = "Exhausted" /\ ~autoreset
    THEN [rc |-> SQLITE_MISUSE, table |-> tbl, stmt |-> s]
    ELSE LET s0 == IF s.state = "Exhausted" THEN ResetStmt(s) ELSE s
         IN  IF fault
             THEN [rc |-> SQLITE_ERROR, table |-> tbl,
                   stmt |-> [s0 EXCEPT !.state = "Exhausted",
                                       !.err = SQLITE_ERROR]]
             ELSE RunStep(s0, tbl)

\* bool step() (lines 116-121): rc, whether it threw, and the engine's state.
StepCall(s, tbl, fault) ==
    LET r == EngineStep(s, tbl, fault)
    IN  [rc |-> r.rc, threw |-> r.rc \notin {SQLITE_ROW, SQLITE_DONE},
         stmt |-> r.stmt, table |-> r.table]

\* The row the cursor is on.
CurrentRow(s, tbl) == QueryRows(s, tbl)[s.pos]

\* sqlite3_bind_int / _double / _text (lines 96-99): refused on a statement
\* that is not Ready, and for an index that is not a parameter's.
BindRc(s, idx) ==
    IF s.state # "Ready" THEN SQLITE_MISUSE
    ELSE IF idx \notin 1..NParams(s.kind) THEN SQLITE_RANGE
    ELSE SQLITE_OK

BindEffect(s, idx, val) ==
    IF BindRc(s, idx) = SQLITE_OK THEN [s EXCEPT !.params[idx] = val] ELSE s

\* int getInt(int col), double getDouble(int col), std::string getText(int col)
\* (lines 125-130) on a row: column 0 is id, column 1 is v.
ColumnValue(row, col) == IF col = 0 THEN IntV(row.id) ELSE row.v

getInt(row, col) ==
    LET c == ColumnValue(row, col)
    IN  CASE c.t = "int" -> IntV(c.i)
          [] c.t = "text" -> IntV(TextNum(c.s))
          [] OTHER -> IntV(0)

getDouble(row, col) ==
    LET c == ColumnValue(row, col)
    IN  CASE c.t = "int" -> DblV(c.i)
          [] c.t = "text" -> DblV(TextNum(c.s))
          [] OTHER -> DblV(0)

\* A text value with a NUL byte inside it, 'a' || char(0) || 'b', which the
\* engine stores and returns whole (written here with \\0 for the byte).
TextWithNul == "a\\0b"

\* std::string(const char*), the conversion of the return statement of
\* getText (line 129): the characters up to the first NUL byte.
CString(x) == IF x = TextWithNul THEN "a" ELSE x

\* sqlite3_column_text is a null pointer for NULL: txt ? txt : "".
getText(row, col) ==
    LET c == ColumnValue(row, col)
    IN  CASE c.t = "int" -> TextV(CString(IntText(c.i)))
          [] c.t = "text" -> TextV(CString(c.s))
          [] OTHER -> TextV("")

(***************************************************************************)
(* Row callbacks.  A mapper is [T, col]: T = "int", "dbl" or "text" reads  *)
(* column col with getInt, getDouble or getText; T = "player" is the       *)
(* mapper of example.cpp lines 34-36, Player{ getInt(0), getText(1) }.     *)
(***************************************************************************)
Types == {"int", "dbl", "text"}
Cols  == {0, 1}

Mappers == [T : Types, col : Cols] \cup {[T |-> "player", col |-> 0]}

Get(T, row, col) ==
    CASE T = "int" -> getInt(row, col)
      [] T = "dbl" -> getDouble(row, col)
      [] OTHER -> getText(row, col)

Apply(m, row) ==
    IF m.T = "player"
    THEN [t |-> "player", i |-> getInt(row, 0).i, s |-> getText(row, 1).s]
    ELSE Get(m.T, row, m.col)

\* results.push_back(x) (lines 142, 164, 172, 180)
PushBack_Front(res, x) == <<x>> \o res

PushBack(res, x) == Append(res, x)

\* The reset() that follows the loop of forEachRow (line 135).
AfterLoop_NoReset(s) == s

AfterLoop(s) == ResetStmt(s)

\* The reset() that follows the loop of column<T> (lines 165, 173, 181).
ColumnAfterLoop_NoReset(s) == s

ColumnAfterLoop(s) == ResetStmt(s)

\* A failure injected into a run of a loop: the callback throws on its
\* at-th invocation ("throw"), or the engine fails the at-th step ("fault").
NoFail == [kind |-> "none", at |-> 0]

Fails == {NoFail} \cup [kind : {"throw", "fault"}, at : 1..(MaxRows + 1)]

\* void forEachRow(fn) (lines 133-136): while(step()) fn(*this); reset();
\* m is the callback: a mapper whose result the callback of mapRows pushes
\* (line 142).  visited are the rows the callback was invoked on, nstep is
\* the number of the step() call about to be made.
RECURSIVE ForEachLoop(_, _, _, _, _, _, _)
ForEachLoop(s, tbl, visited, res, nstep, m, fail) ==
    LET r == StepCall(s, tbl, fail.kind = "fault" /\ fail.at = nstep)
    IN  IF r.threw
        THEN [stmt |-> r.stmt, table |-> r.table, visited |-> visited,
              out |-> << >>, rc |-> r.rc, threw |-> TRUE]
        ELSE IF r.rc = SQLITE_ROW
        THEN LET row == CurrentRow(r.stmt, r.table)
             IN  IF fail.kind = "throw" /\ fail.at = Len(visited) + 1
                 THEN [stmt |-> r.stmt, table |-> r.table,
                       visited |-> Append(visited, row), out |-> << >>,
                       rc |-> r.rc, threw |-> TRUE]
                 ELSE ForEachLoop(r.stmt, r.table, Append(visited, row),
                                  PushBack(res, Apply(m, row)), nstep + 1,
                                  m, fail)
        ELSE [stmt |-> AfterLoop(r.stmt), table |-> r.table,
              visited |-> visited, out |-> res, rc |-> r.rc, threw |-> FALSE]

ForEachRowRun(s, tbl, m, fail) ==
    ForEachLoop(s, tbl, << >>, << >>, 1, m, fail)

\* std::vector<T> mapRows(mapper) (lines 139-144)
MapRowsRun(s, tbl, m, fail) == ForEachRowRun(s, tbl, m, fail)

\* std::vector<T> column<T>(colIndex) (lines 161-183):
\* while(step()) res.push_back(get<T>(colIndex)); reset(); return res;
RECURSIVE ColumnLoop(_, _, _, _, _, _, _)
ColumnLoop(s, tbl, res, nstep, T, col, fail) ==
    LET r == StepCall(s, tbl, fail.kind = "fault" /\ fail.at = nstep)
    IN  IF r.threw
        THEN [stmt |-> r.stmt, table |-> r.table, out |-> << >>,
              rc |-> r.rc, threw |-> TRUE]
        ELSE IF r.rc = SQLITE_ROW
        THEN ColumnLoop(r.stmt, r.table,
                        PushBack(res, Get(T, CurrentRow(r.stmt, r.table), col)),
                        nstep + 1, T, col, fail)
        ELSE [stmt |-> ColumnAfterLoop(r.stmt), table |-> r.table,
              out |-> res, rc |-> r.rc, threw |-> FALSE]

ColumnRun(s, tbl, T, col, fail) == ColumnLoop(s, tbl, << >>, 1, T, col, fail)

(***************************************************************************)
(* The actions on the Statement.  last is the outcome of the last one: the *)
(* engine's return code, whether the call threw, the cursor state it       *)
(* started from, and the number n of callback invocations or of elements   *)
(* returned (for reset(): 2 when the call before it was a reset() too,     *)
(* else 1; for a positional bind: the index passed), for a bind by name    *)
(* the name that was passed, and for a positional bind the value passed.   *)
(***************************************************************************)
NoLast == [op |-> "init", rc |-> SQLITE_OK, threw |-> FALSE, pre |-> "Ready",
           n |-> 0, name |-> "", val |-> Null]

NoManual == [active |-> FALSE, done |-> FALSE, from |-> NoStmt,
             fromTable |-> << >>, rows |-> << >>]

\* The INSERT is run only on a table of fewer than MaxInsertRows rows.
CanStep ==
    stmt.kind # "none" /\ (stmt.kind = "insert" => Len(table) < MaxInsertRows)

\* Database::prepare (lines 154-156) and Statement(sqlite3*, sql) (76-80).
Prepare(kind) ==
    /\ stmt.kind = "none"
    /\ stmt' = Compiled(kind)
    /\ last' = [NoLast EXCEPT !.op = "prepare"]
    /\ manual' = NoManual
    /\ UNCHANGED <<table, autoreset, connVars, txnVars, ownVars>>

\* sqlite3_prepare_v2 rejects the SQL: the constructor throws.
PrepareFail ==
    /\ stmt.kind = "none"
    /\ last' = [NoLast EXCEPT !.op = "prepare", !.rc = SQLITE_ERROR,
                              !.threw = TRUE]
    /\ manual' = NoManual
    /\ UNCHANGED <<stmt, table, autoreset, connVars, txnVars, ownVars>>

\* ~Statement() (line 82)
Finalize ==
    /\ stmt.kind # "none"
    /\ stmt' = NoStmt
    /\ last' = [NoLast EXCEPT !.op = "finalize", !.pre = stmt.state]
    /\ manual' = NoManual
    /\ UNCHANGED <<table, autoreset, connVars, txnVars, ownVars>>

\* void bind(int index, int | double | const std::string& val) (lines 96-100):
\* the engine's return code is not looked at.
BindPos(idx, val) ==
    /\ stmt.kind # "none"
    /\ stmt' = BindEffect(stmt, idx, val)
    /\ last' = [NoLast EXCEPT !.op = "bind", !.rc = BindRc(stmt, idx),
                              !.threw = FALSE, !.pre = stmt.state,
                              !.n = idx, !.val = val]
    /\ manual' = NoManual
    /\ UNCHANGED <<table, autoreset, connVars, txnVars, ownVars>>

\* void bind(const std::string& name, ...) (lines 103-114): if(idx) bind.
BindNamed(name, val) ==
    /\ stmt.kind # "none"
    /\ LET idx == ParamIndex(stmt.kind, name)
       IN  /\ stmt' = IF idx # 0 THEN BindEffect(stmt, idx, val) ELSE stmt
           /\ last' = [NoLast EXCEPT !.op = "bind_named",
                          !.rc = IF idx # 0 THEN BindRc(stmt, idx) ELSE SQLITE_OK,
                          !.threw = FALSE, !.pre = stmt.state,
                          !.name = name]
    /\ manual' = NoManual
    /\ UNCHANGED <<table, autoreset, connVars, txnVars, ownVars>>

\* bool step() called by the caller (lines 116-121).  manual follows the
\* caller's own loop "while(step()) ...": the rows it was given since the
\* loop began, and the statement and table the loop began on.
Step(fault) ==
    /\ CanStep
    /\ LET r == StepCall(stmt, table, fault)
           loop == IF manual.active /\ ~manual.done THEN manual
                   ELSE [active |-> TRUE, done |-> FALSE, from |-> stmt,
                         fromTable |-> table, rows |-> << >>]
       IN  /\ stmt' = r.stmt
           /\ table' = r.table
           /\ last' = [NoLast EXCEPT !.op = "step", !.rc = r.rc,
                                     !.threw = r.threw, !.pre = stmt.state]
           /\ manual' = CASE r.threw -> NoManual
                          [] r.rc = SQLITE_ROW ->
                               [loop EXCEPT !.rows =
                                   Append(@, CurrentRow(r.stmt, r.table))]
                          [] OTHER -> [loop EXCEPT !.done = TRUE]
    /\ UNCHANGED <<autoreset, connVars, txnVars, ownVars>>

\* void reset() (line 123): the engine's return code is not looked at.
Reset ==
    /\ stmt.kind # "none"
    /\ stmt' = ResetStmt(stmt)
    /\ last' = [NoLast EXCEPT !.op = "reset", !.rc = ResetRc(stmt),
                              !.threw = FALSE, !.pre = stmt.state,
                              !.n = IF last.op = "reset" THEN 2 ELSE 1]
    /\ manual' = NoManual
    /\ UNCHANGED <<table, autoreset, connVars, txnVars, ownVars>>

\* forEachRow(fn) with a callback that only looks at the row.
ForEachRow(fail) ==
    /\ CanStep
    /\ LET r == ForEachRowRun(stmt, table, [T |-> "int", col |-> 0], fail)
       IN  /\ stmt' = r.stmt
           /\ table' = r.table
           /\ last' = [op |-> "forEachRow", rc |-> r.rc, threw |-> r.threw,
                       pre |-> stmt.state, n |-> Len(r.visited),
                       name |-> "", val |-> Null]
    /\ manual' = NoManual
    /\ UNCHANGED <<autoreset, connVars, txnVars, ownVars>>

\* mapRows<T>(mapper)
MapRows(m, fail) ==
    /\ CanStep
    /\ LET r == MapRowsRun(stmt, table, m, fail)
       IN  /\ stmt' = r.stmt
           /\ table' = r.table
           /\ last' = [op |-> "mapRows", rc |-> r.rc, threw |-> r.threw,
                       pre |-> stmt.state, n |-> Len(r.out),
                       name |-> "", val |-> Null]
    /\ manual' = NoManual
    /\ UNCHANGED <<autoreset, connVars, txnVars, ownVars>>

\* column<T>(colIndex); only the engine can fail inside it.
Column(T, col, fail) ==
    /\ CanStep
    /\ fail.kind # "throw"
    /\ LET r == ColumnRun(stmt, table, T, col, fail)
       IN  /\ stmt' = r.stmt
           /\ table' = r.table
           /\ last' = [op |-> "column", rc |-> r.rc, threw |-> r.threw,
                       pre |-> stmt.state, n |-> Len(r.out),
                       name |-> "", val |-> Null]
    /\ manual' = NoManual
    /\ UNCHANGED <<autoreset, connVars, txnVars, ownVars>>

(***************************************************************************)
(*                              SpecOwn                                    *)
(* Statement as the owner of a compiled handle: rdb.h lines 72-93 and      *)
(* Database::prepare, lines 154-156.  A Statement object is a slot o of    *)
(* stmts; compiled[h] counts the sqlite3_finalize calls made on handle h.  *)
(***************************************************************************)
StmtIds == 1..MaxStmts

NoOwnResult == [op |-> "init", rc |-> SQLITE_OK, threw |-> FALSE, src |-> 1]

\* sqlite3_finalize(h) as called at lines 82 and 89.
sqlite3_finalize(hs, h) == [hs EXCEPT ![h].finalized = @ + 1]

\* The guarded call of lines 82 and 89: if(stmt_) sqlite3_finalize(stmt_);
FinalizeIfHeld(hs, h) == IF h # nullptr THEN sqlite3_finalize(hs, h) ELSE hs

\* db.prepare(sql): Statement(sqlite3*, sql) with sqlite3_prepare_v2
\* returning SQLITE_OK.  empty: the SQL holds no statement (blank, or a
\* comment), for which the engine succeeds and stores a null handle.
PrepareObj(o, empty) ==
    /\ ~stmts[o].live
    /\ IF empty
       THEN /\ stmts' = [stmts EXCEPT ![o] = [live |-> TRUE, stmt_ |-> nullptr]]
            /\ UNCHANGED compiled
       ELSE /\ Len(compiled) < MaxCompiled
            /\ compiled' = Append(compiled, [finalized |-> 0])
            /\ stmts' = [stmts EXCEPT
                            ![o] = [live |-> TRUE, stmt_ |-> Len(compiled) + 1]]
    /\ lastOwn' = [NoOwnResult EXCEPT !.op = "prepare"]
    /\ UNCHANGED <<table, connVars, txnVars, stmtVars>>

\* Statement(sqlite3*, sql) with sqlite3_prepare_v2 failing: the engine
\* stores a null handle, the constructor throws, no object comes to life.
PrepareObjFail(o) ==
    /\ ~stmts[o].live
    /\ lastOwn' = [NoOwnResult EXCEPT !.op = "prepare", !.rc = SQLITE_ERROR,
                                      !.threw = TRUE]
    /\ UNCHANGED <<stmts, compiled, table, connVars, txnVars, stmtVars>>

\* Statement(Statement&& other) (line 87)
StmtMoveCtorEffect(os, dst, src) ==
    LET o1 == [os EXCEPT ![dst] = [live |-> TRUE, stmt_ |-> os[src].stmt_]]
    IN  [o1 EXCEPT ![src].stmt_ = nullptr]

StmtMoveConstruct(dst, src) ==
    /\ ~stmts[dst].live
    /\ stmts[src].live
    /\ stmts' = StmtMoveCtorEffect(stmts, dst, src)
    /\ lastOwn' = [NoOwnResult EXCEPT !.op = "move_ctor", !.src = src]
    /\ UNCHANGED <<compiled, table, connVars, txnVars, stmtVars>>

\* A move assignment that leaves the source holding its handle.
StmtMoveAssignEffect_NoNull(os, dst, src) ==
    [os EXCEPT ![dst].stmt_ = os[src].stmt_]

\* Lines 90-91 of operator=(Statement&&), one assignment after the other.
StmtMoveAssignEffect(os, dst, src) ==
    LET o1 == [os EXCEPT ![dst].stmt_ = os[src].stmt_]
    IN  [o1 EXCEPT ![src].stmt_ = nullptr]

\* Statement& operator=(Statement&& other) (lines 88-93)
StmtMoveAssign(dst, src) ==
    /\ stmts[dst].live
    /\ stmts[src].live
    /\ compiled' = FinalizeIfHeld(compiled, stmts[dst].stmt_)
    /\ stmts' = StmtMoveAssignEffect(stmts, dst, src)
    /\ lastOwn' = [NoOwnResult EXCEPT
                      !.op = IF dst = src THEN "self_assign" ELSE "move_assign",
                      !.src = src]
    /\ UNCHANGED <<table, connVars, txnVars, stmtVars>>

\* ~Statement() (line 82)
StmtDestroy(o) ==
    /\ stmts[o].live
    /\ compiled' = FinalizeIfHeld(compiled, stmts[o].stmt_)
    /\ stmts' = [stmts EXCEPT ![o] = [live |-> FALSE, stmt_ |-> nullptr]]
    /\ lastOwn' = [NoOwnResult EXCEPT
                      !.op = IF stmts[o].stmt_ = nullptr THEN "destroy_empty"
                                                        ELSE "destroy"]
    /\ UNCHANGED <<table, connVars, txnVars, stmtVars>>

(***************************************************************************)
(* The specifications.                                                     *)
(***************************************************************************)
ConnIdle ==
    /\ objs = [o \in ObjIds |-> [live |-> FALSE, db_ |-> nullptr]]
    /\ handles = << >>
    /\ lastConn = NoResult

TxnIdle ==
    /\ engineTxn = FALSE
    /\ snapshot = << >>
    /\ scopes = << >>
    /\ exc = FALSE
    /\ proc = "running"
    /\ lastTxn = NoTxnResult

StmtIdle ==
    /\ stmt = NoStmt
    /\ manual = NoManual
    /\ last = NoLast
    /\ stmts = [o \in StmtIds |-> [live |-> FALSE, stmt_ |-> nullptr]]
    /\ compiled = << >>
    /\ lastOwn = NoOwnResult

\* SpecConn: Database objects and their native handles.
InitConn ==
    ConnIdle /\ TxnIdle /\ StmtIdle /\ autoreset = TRUE /\ table = << >>

NextConn ==
    \/ \E o \in ObjIds : Open(o)
    \/ \E o \in ObjIds, allocated \in BOOLEAN : OpenFail(o, allocated)
    \/ \E dst \in ObjIds, src \in ObjIds : MoveConstruct(dst, src)
    \/ \E dst \in ObjIds, src \in ObjIds : MoveAssign(dst, src)
    \/ \E o \in ObjIds : Destroy(o)

SpecConn == InitConn /\ [][NextConn]_vars

\* SpecTxn: Transaction scopes and execute on one open connection.
TxnInitTables == {<< >>, <<[id |-> 1, v |-> TextV("a")]>>}

InitTxn ==
    ConnIdle /\ TxnIdle /\ StmtIdle /\ autoreset = TRUE
        /\ table \in TxnInitTables

NextTxn ==
    \/ TxnCtor
    \/ \E val \in TxnTexts, outcome \in {"ok", "abort", "rollback"} :
           ExecInsert(val, outcome)
    \/ \E k \in 1..MaxScopes, busy \in BOOLEAN : Commit(k, busy)
    \/ \E k \in 1..MaxScopes : Rollback(k)
    \/ Dtor
    \/ Catch

SpecTxn == InitTxn /\ [][NextTxn]_vars

\* SpecStmt: a Statement compiled from the SELECT, over a table of up to
\* MaxRows rows, in either build of the engine.
\* The initial tables: ids 1..n, v alternately text and NULL, the text
\* being "a" (first = 0, 1) or the text with a NUL byte in it (first = 2).
InitV(k, first) ==
    IF (k + first) % 2 = 0 THEN Null
    ELSE IF first = 2 THEN TextV(TextWithNul) ELSE TextV("a")

InitTables ==
    {[k \in 1..n |-> [id |-> k, v |-> InitV(k, first)]] :
        n \in 0..MaxRows, first \in {0, 1, 2}}

\* The mappers and the values the callers of the model pass.
CallMappers == {[T |-> "player", col |-> 0], [T |-> "text", col |-> 1]}

BindVals == {IntV(1), TextV("a"), TextV("b")}

BindNames == {":v", ":lo", ":typo"}

InitStmt ==
    ConnIdle /\ TxnIdle /\ StmtIdle /\ autoreset \in BOOLEAN
        /\ table \in InitTables

NextStmt ==
    \/ Prepare("select")
    \/ PrepareFail
    \/ Finalize
    \/ \E idx \in 1..3, val \in BindVals : BindPos(idx, val)
    \/ \E name \in BindNames, val \in BindVals : BindNamed(name, val)
    \/ \E fault \in BOOLEAN : Step(fault)
    \/ Reset
    \/ \E fail \in Fails : ForEachRow(fail)
    \/ \E m \in CallMappers, fail \in Fails : MapRows(m, fail)
    \/ \E T \in Types, col \in Cols, fail \in Fails : Column(T, col, fail)

SpecStmt == InitStmt /\ [][NextStmt]_vars

\* SpecBind: a Statement with parameters, compiled from the INSERT or from
\* the SELECT with :lo, bound and executed, over a table that starts empty
\* or with one row.
BindInitTables == {<< >>, <<[id |-> 1, v |-> Null]>>}

InitBind ==
    ConnIdle /\ TxnIdle /\ StmtIdle /\ autoreset \in BOOLEAN
        /\ table \in BindInitTables

NextBind ==
    \/ \E kind \in {"insert", "select_from"} : Prepare(kind)
    \/ PrepareFail
    \/ Finalize
    \/ \E idx \in 1..3, val \in BindVals : BindPos(idx, val)
    \/ \E name \in BindNames, val \in BindVals : BindNamed(name, val)
    \/ \E fault \in BOOLEAN : Step(fault)
    \/ Reset
    \/ \E fail \in Fails : ForEachRow(fail)

SpecBind == InitBind /\ [][NextBind]_vars

\* SpecOwn: Statement objects and their compiled handles.
InitOwn ==
    ConnIdle /\ TxnIdle /\ StmtIdle /\ autoreset = TRUE /\ table = << >>

NextOwn ==
    \/ \E o \in StmtIds, empty \in BOOLEAN : PrepareObj(o, empty)
    \/ \E o \in StmtIds : PrepareObjFail(o)
    \/ \E dst \in StmtIds, src \in StmtIds : StmtMoveConstruct(dst, src)
    \/ \E dst \in StmtIds, src \in StmtIds : StmtMoveAssign(dst, src)
    \/ \E o \in StmtIds : StmtDestroy(o)

SpecOwn == InitOwn /\ [][NextOwn]_vars

(***************************************************************************)
(*                            Properties                                   *)
(***************************************************************************)

\* The destructor has just run on a scope that was still pending and on
\* which neither commit() nor rollback() had been called.
PendingScopeDestroyed ==
    lastTxn.op = "dtor" /\ lastTxn.pending /\ ~lastTxn.called

C2_NoDoubleFault ==
    (lastTxn.op = "dtor" /\ lastTxn.unwinding /\ lastTxn.pending
        /\ lastTxn.rc # SQLITE_OK)
    => (proc = "running" /\ exc)

\* C3: on a statement that is Ready and whose query yields N rows,
\* forEachRow invokes its callback on exactly those N rows in cursor order
\* and returns with the statement Ready, so that a forEachRow that follows
\* at once visits the same N rows again.
C3_ForEachRowVisitsAll ==
    /\ (stmt.kind # "none" /\ stmt.state = "Ready") =>
           LET m == [T |-> "int", col |-> 0]
               r1 == ForEachRowRun(stmt, table, m, NoFail)
               r2 == ForEachRowRun(r1.stmt, r1.table, m, NoFail)
           IN  /\ ~r1.threw
               /\ r1.visited = QueryRows(stmt, table)
               /\ r1.stmt.state = "Ready"
               /\ ~r2.threw
               /\ r2.visited = r1.visited
    /\ (last.op = "forEachRow" /\ last.pre = "Ready" /\ ~last.threw) =>
           /\ last.n = Len(QueryRows(stmt, table))
           /\ stmt.state = "Ready"

C3_Witness ==
    /\ last.op = "forEachRow" /\ last.pre = "Ready" /\ ~last.threw
    /\ last.n = 3
    /\ stmt.state = "Ready"

\* C4: on every exit path of forEachRow and of mapRows (normal return, a
\* failure raised by the callback, a failure raised by step) the statement
\* is Ready when control is back with the caller.
C4_ReadyOnEveryExit ==
    last.op \in {"forEachRow", "mapRows"} => stmt.state = "Ready"

\* The live Database objects that hold native handle h.
Owners(h) == {o \in ObjIds : objs[o].live /\ objs[o].db_ = h}

\* C5: every native handle a Database wraps is held by at most one live
\* Database, is closed at most once, and is closed exactly when no live
\* Database holds it any more; the source of a move holds no handle.
C5_HandleOwnedOnceReleasedOnce ==
    /\ \A h \in 1..Len(handles) :
           handles[h].wrapped =>
               /\ Cardinality(Owners(h)) <= 1
               /\ handles[h].closes <= 1
               /\ (handles[h].closes = 1) <=> (Owners(h) = {})
    /\ lastConn.op \in {"move_ctor", "move_assign", "self_assign"} =>
           objs[lastConn.src].db_ = nullptr

\* A Database that held a handle was move-assigned to itself: the handle has
\* been closed once and nothing holds it.
C5_Witness ==
    /\ lastConn.op = "self_assign"
    /\ \E h \in 1..Len(handles) : handles[h].closes = 1 /\ Owners(h) = {}
    /\ \E h \in 1..Len(handles) : Cardinality(Owners(h)) = 1

\* C6: once step() has returned false, a further step() without a reset()
\* in between returns no row, leaves the statement Exhausted and does not
\* execute the statement again (the table is as it was).
C6_ExhaustedUntilReset ==
    [][(last.op = "step" /\ last.rc = SQLITE_DONE /\ last'.op = "step")
         => (last'.rc # SQLITE_ROW /\ stmt'.state = "Exhausted"
                /\ table' = table)]_vars

\* C7: every failure the engine reports to an operation of the Statement
\* (prepare, step, bind, reset) is thrown to the caller.
C7_EngineFailuresThrown ==
    last.rc \notin {SQLITE_OK, SQLITE_ROW, SQLITE_DONE} => last.threw

\* C8: the caller's own loop, step() until it returns false, applying a
\* mapper to each row, collects exactly the sequence that mapRows with that
\* mapper returns on the statement and table the loop began on.
C8_MapRowsEqualsManualLoop ==
    manual.done =>
        \A m \in Mappers :
            LET r == MapRowsRun(manual.from, manual.fromTable, m, NoFail)
            IN  /\ ~r.threw
                /\ r.out = [k \in 1..Len(manual.rows) |->
                                Apply(m, manual.rows[k])]

C8_Witness ==
    /\ manual.done
    /\ Len(manual.rows) = 3
    /\ manual.from.state = "Ready"

\* C9: column<T>(i) returns what mapRows returns with the mapper that reads
\* column i as T, fails where it fails, and leaves the statement and the
\* table as it does: Ready after a run to exhaustion.
C9_ColumnEqualsMapRows ==
    stmt.kind # "none" =>
        \A T \in Types, col \in Cols, fail \in {f \in Fails : f.kind # "throw"} :
            LET c == ColumnRun(stmt, table, T, col, fail)
                r == MapRowsRun(stmt, table, [T |-> T, col |-> col], fail)
            IN  /\ c.threw = r.threw
                /\ c.out = r.out
                /\ c.stmt = r.stmt
                /\ c.table = r.table
                /\ ~c.threw => c.stmt.state = "Ready"

\* column<int>(0) has just run over the rows with ids 1, 2, 3 and returns
\* exactly [1, 2, 3].
C9_Witness ==
    /\ last.op = "column" /\ ~last.threw /\ last.n = 3
    /\ stmt.state = "Ready"
    /\ ColumnRun(stmt, table, "int", 0, NoFail).out
           = <<IntV(1), IntV(2), IntV(3)>>

\* C10: reset() does not fail, leaves the statement Ready whatever state it
\* was in, and leaves every parameter bound to the value it had.
C10_ResetKeepsBindings ==
    [][last'.op = "reset"
         => (/\ ~last'.threw
             /\ stmt'.state = "Ready"
             /\ stmt'.params = stmt.params)]_vars

\* reset() has run on a statement that was on a row, with :lo bound.
C10_Witness ==
    /\ last.op = "reset" /\ last.pre = "HasRow"
    /\ stmt.kind = "select_from"
    /\ stmt.params[1] = IntV(1)
    /\ stmt.state = "Ready"

\* C11: reset() is idempotent: a reset() that follows a reset() at once
\* leaves the statement, its cursor state and every binding, exactly as the
\* first reset() left it.
C11_ResetIdempotent ==
    [][(last.op = "reset" /\ last'.op = "reset") => stmt' = stmt]_vars

\* reset() has run twice in a row on the INSERT with :v bound to "a".
C11_Witness ==
    /\ last.op = "reset" /\ last.n = 2
    /\ stmt.kind = "insert"
    /\ stmt.params[2] = TextV("a")
    /\ stmt.state = "Ready"

\* The reuse of one prepared INSERT as in example.cpp lines 24-27, from
\* statement s over table tbl: bind :v to x, step to completion, reset,
\* bind :v to y, step to completion.  "while(step());" ends at the first
\* step() that returns false, or is left by its exception.
BindByName(s, name, val) ==
    LET idx == ParamIndex(s.kind, name)
    IN  IF idx # 0 THEN BindEffect(s, idx, val) ELSE s

ReuseInsert(s, tbl, x, y) ==
    LET b1 == BindByName(s, ":v", TextV(x))
        r1 == StepCall(b1, tbl, FALSE)
        s1 == ResetStmt(r1.stmt)
        b2 == BindByName(s1, ":v", TextV(y))
        r2 == StepCall(b2, r1.table, FALSE)
    IN  [threw |-> r1.threw \/ r2.threw, done |-> r1.rc = SQLITE_DONE
                                                  /\ r2.rc = SQLITE_DONE,
         mid |-> r1.table, table |-> r2.table, stmt |-> r2.stmt]

\* C12: on a Ready prepared INSERT whose id parameter is unbound, binding :v
\* to "a", stepping to completion, resetting, binding :v to "b" and stepping
\* to completion adds exactly two rows after the rows already there, "a"
\* then "b"; and every completed step of the INSERT adds one row carrying
\* the value then bound to :v and keeps every earlier row.
C12_ReuseInsertsTwoRows ==
    /\ (stmt.kind = "insert" /\ stmt.state = "Ready" /\ stmt.params[1] = Null) =>
           LET r == ReuseInsert(stmt, table, "a", "b")
               n == MaxId(table)
           IN  /\ ~r.threw /\ r.done
               /\ r.mid = table \o <<[id |-> n + 1, v |-> TextV("a")]>>
               /\ r.table = table \o <<[id |-> n + 1, v |-> TextV("a")],
                                        [id |-> n + 2, v |-> TextV("b")]>>
    /\ (stmt.kind = "insert" /\ last.op = "step" /\ last.rc = SQLITE_DONE) =>
           /\ Len(table) >= 1
           /\ \E k \in 1..Len(table) :
                  table[k].v = TextAffinity(stmt.params[2])

\* The INSERT has been stepped to completion twice on the empty table, the
\* second time after a reset() and with :v bound to "b": the table holds
\* the rows "a" and "b", in that order.
C12_Witness ==
    /\ stmt.kind = "insert" /\ stmt.state = "Exhausted"
    /\ last.op = "step" /\ last.pre = "Ready" /\ last.rc = SQLITE_DONE
    /\ stmt.params = <<Null, TextV("b")>>
    /\ table = <<[id |-> 1, v |-> TextV("a")], [id |-> 2, v |-> TextV("b")]>>

\* C13: a bind by a name that is no placeholder of the compiled statement
\* throws nothing, reports no engine error, and leaves the statement as it
\* was: the same cursor state and the same value in every parameter.
C13_UnknownNameIsNoOp ==
    [][(last'.op = "bind_named" /\ last'.name \notin Placeholders(stmt.kind))
         => (/\ ~last'.threw
             /\ last'.rc = SQLITE_OK
             /\ stmt' = stmt
             /\ table' = table)]_vars

\* bind(":typo", ...) has just been called on the Ready INSERT whose :v
\* holds "a": it still holds "a".
C13_Witness ==
    /\ last.op = "bind_named" /\ last.name = ":typo"
    /\ stmt.kind = "insert" /\ stmt.state = "Ready"
    /\ stmt.params = <<Null, TextV("a")>>

\* C14: once a COMMIT or ROLLBACK issued by a scope's commit() or rollback()
\* has succeeded the scope is resolved, and its destruction issues no
\* statement; until then, a failed COMMIT or ROLLBACK included, the scope is
\* pending, and its destruction issues ROLLBACK.
C14_ResolvedScopeIssuesNothing ==
    /\ \A k \in 1..Len(scopes) : scopes[k].active_ <=> ~scopes[k].resolved
    /\ lastTxn.op = "dtor" =>
           /\ lastTxn.pending <=> ~lastTxn.resolved
           /\ lastTxn.resolved => lastTxn.issued = "none"
           /\ ~lastTxn.resolved => lastTxn.issued = "ROLLBACK;"

\* A scope whose commit() failed (the engine was busy) has been destroyed:
\* the destructor issued ROLLBACK, which succeeded.
C14_Witness ==
    /\ lastTxn.op = "dtor" /\ lastTxn.called /\ ~lastTxn.resolved
    /\ lastTxn.issued = "ROLLBACK;" /\ lastTxn.rc = SQLITE_OK
    /\ table = lastTxn.atBegin
    /\ Len(lastTxn.before) > Len(lastTxn.atBegin)

\* C15: a positional bind(i, v) with i the index of a parameter of the
\* statement leaves parameter i holding v and every other parameter holding
\* what it held.
C15_PositionalBindOverwrites ==
    [][(last'.op = "bind" /\ last'.n \in 1..NParams(stmt.kind))
         => stmt'.params = [stmt.params EXCEPT ![last'.n] = last'.val]]_vars

\* C16: constructing a Transaction while a transaction is open on the
\* connection issues BEGIN and nothing else, fails with the engine's error
\* and creates no scope: the open transaction, the changes made in it and
\* the scopes alive, their pending flags included, are as they were.
C16_NestedCtorFails ==
    [][(lastTxn'.op = "ctor" /\ engineTxn)
         => (/\ lastTxn'.issued = "BEGIN;"
             /\ lastTxn'.rc # SQLITE_OK
             /\ lastTxn'.threw /\ exc'
             /\ scopes' = scopes
             /\ engineTxn'
             /\ table' = table
             /\ snapshot' = snapshot)]_vars

\* A second Transaction was constructed inside a pending scope that had
\* inserted a row: the construction threw, the one scope is still pending,
\* its transaction is open and the row is there.
C16_Witness ==
    /\ lastTxn.op = "ctor" /\ lastTxn.threw
    /\ Len(scopes) = 1
    /\ scopes[1].active_ /\ scopes[1].txnLive
    /\ engineTxn
    /\ Len(table) = Len(scopes[1].atBegin) + 1

\* The live Statement objects that hold compiled handle h.
StmtOwners(h) == {o \in StmtIds : stmts[o].live /\ stmts[o].stmt_ = h}

\* C17: every compiled handle is held by at most one live Statement, is
\* finalized at most once, and is finalized exactly when no live Statement
\* holds it any more; the source of a move holds no handle.
C17_CompiledOwnedOnceFinalizedOnce ==
    /\ \A h \in 1..Len(compiled) :
           /\ Cardinality(StmtOwners(h)) <= 1
           /\ compiled[h].finalized <= 1
           /\ (compiled[h].finalized = 1) <=> (StmtOwners(h) = {})
    /\ lastOwn.op \in {"move_ctor", "move_assign", "self_assign"} =>
           stmts[lastOwn.src].stmt_ = nullptr

\* A Statement holding a handle was move-assigned onto another that held
\* one: the target's old handle is finalized, the source's handle lives on
\* in the target, and the source holds nothing.
C17_Witness ==
    /\ lastOwn.op = "move_assign"
    /\ Len(compiled) = 2
    /\ \E h \in 1..2 : compiled[h].finalized = 1 /\ StmtOwners(h) = {}
    /\ \E h \in 1..2 : compiled[h].finalized = 0
                           /\ Cardinality(StmtOwners(h)) = 1
                           /\ lastOwn.src \notin StmtOwners(h)

\* C18: when an open has failed, the caller has been thrown the failure and
\* no native handle is left unreleased: every handle the engine allocated
\* is held by a live Database or has been closed.
C18_FailedOpenLeavesNoHandle ==
    (lastConn.op = "open" /\ lastConn.rc # SQLITE_OK) =>
        /\ lastConn.threw
        /\ \A h \in 1..Len(handles) :
               handles[h].closes >= 1 \/ Owners(h) # {}

\* C19: on the row the cursor is on, getText of a column that is NULL is the
\* empty string, and getText of a column that holds text is that text,
\* unchanged.
C19_GetTextNullIsEmpty ==
    stmt.state = "HasRow" =>
        LET row == CurrentRow(stmt, table)
        IN  /\ row.v = Null => getText(row, 1) = TextV("")
            /\ row.v.t = "text" => getText(row, 1) = row.v

====
